---- MODULE Spec2Model ----
(***************************************************************************)
(* Model of the embedding and retrieval services of backend/services:      *)
(*   EmbeddingJobService   (embedding_job_service.py)                      *)
(*   EmbeddingService      (embedding_service.py)                          *)
(*   GitHubDataService     (github_data_service.py)                        *)
(*   RAGContextBuilder     (rag_context_builder.py), plan_node (nodes.py)  *)
(* One owner's rows of the github_activity table are the store; a job      *)
(* invocation is a process that takes one step per store or provider call. *)
(***************************************************************************)
EXTENDS Integers, Sequences, FiniteSets, TLC

\* ------------------------------------------------------------------ bounds
MaxRecords == 3      \* rows of the owner in github_activity
MaxBatch == 2        \* largest batch_size a caller passes explicitly
MaxCap == 2          \* largest max_commits a caller passes
MaxFaults == 2       \* provider/store calls that fail during one invocation
MaxWrites == 2       \* the per-row write counter saturates here
ManyCommits == 20001   \* rows of a large owner
MaxLoad == 2         \* rows the fallback search loads: the code's 1000,
                     \* scaled so that a corpus of the model can exceed it

\* ------------------------------------------------------- program constants
default_batch_size == 50

\* --------------------------------------------------------- python values
\* A request value is None, an int or a str (main.py: request.get(...)).
None == [t |-> "none", v |-> 0]
PyInt(n) == [t |-> "int", v |-> n]
PyStr == [t |-> "str", v |-> 0]

\* Python truthiness of such a value ("if max_commits:", "batch_size or ...")
Truthy(x) == \/ (x.t = "int" /\ x.v # 0)
             \/ x.t = "str"

Min(a, b) == IF a <= b THEN a ELSE b

\* The embedding column is NULL or holds a vector.
NULL == <<>>

\* ------------------------------------------------------------------ texts
\* A commit message is a sequence of characters; " " is whitespace.
Texts == { <<" ">>, <<"a">>, <<"b">> }

RECURSIVE LStrip(_)
LStrip(t) == IF t # <<>> /\ Head(t) = " " THEN LStrip(Tail(t)) ELSE t

RECURSIVE RStrip(_)
RStrip(t) == IF t # <<>> /\ t[Len(t)] = " "
             THEN RStrip(SubSeq(t, 1, Len(t) - 1)) ELSE t

\* str.strip()
Strip(t) == RStrip(LStrip(t))

\* "t and t.strip()" of generate_embeddings_batch / generate_embedding
NonBlank(t) == t # <<>> /\ Strip(t) # <<>>

\* ------------------------------------------------------ embedding provider
\* Vectors are sequences of integers.  A vector the provider returns is raw;
\* a vector the service returns is unit-normalised and held in tenths
\* (<<6, 8>> is (0.6, 0.8)).
Dot(a, b) ==
    LET RECURSIVE Sum(_)
        Sum(i) == IF i = 0 THEN 0 ELSE a[i] * b[i] + Sum(i - 1)
    IN  Sum(Min(Len(a), Len(b)))

\* np.linalg.norm, for the vectors of the model (their norms are integers)
Norm(v) == CHOOSE n \in 0..Dot(v, v) : n * n = Dot(v, v)

\* EmbeddingService._normalize_embedding: values / norm, the zero vector
\* unchanged.
_normalize_embedding(values) ==
    IF Norm(values) > 0
    THEN [i \in 1..Len(values) |-> (values[i] * 10) \div Norm(values)]
    ELSE values

\* client.models.embed_content: one vector per input text, in input order,
\* a deterministic function of the text.
ProviderEmbedding(t) ==
    CASE t = <<"a">> -> <<3, 4>>
      [] t = <<"b">> -> <<4, -3>>
      [] t = <<"c">> -> <<5, 0>>
      [] OTHER -> <<0, 5>>

embed_content(texts) ==
    [i \in 1..Len(texts) |-> _normalize_embedding(ProviderEmbedding(texts[i]))]

\* EmbeddingService.generate_embedding / generate_query_embedding: a blank
\* text raises before the provider is called.
generate_embedding(text, ok) ==
    IF ~NonBlank(text)
    THEN [raised |-> TRUE, called |-> FALSE, value |-> <<>>]
    ELSE IF ~ok
    THEN [raised |-> TRUE, called |-> TRUE, value |-> <<>>]
    ELSE [raised |-> FALSE, called |-> TRUE,
          value |-> _normalize_embedding(ProviderEmbedding(text))]

\* Mutant: generate_embeddings_batch without its filter of blank texts
\* ("valid_texts = texts").
BatchWithoutFilter(texts, ok) ==
    IF Len(texts) = 0
    THEN [raised |-> TRUE, called |-> FALSE, value |-> <<>>]
    ELSE IF ~ok
    THEN [raised |-> TRUE, called |-> TRUE, value |-> <<>>]
    ELSE [raised |-> FALSE, called |-> TRUE, value |-> embed_content(texts)]

\* EmbeddingService.generate_embeddings_batch.  Every exception is re-raised
\* as Exception; ok says whether the provider call succeeds.
generate_embeddings_batch(texts, ok) ==
    LET valid_texts == SelectSeq(texts, NonBlank)
    IN  IF Len(texts) = 0
        THEN [raised |-> TRUE, called |-> FALSE, value |-> <<>>]
        ELSE IF Len(valid_texts) = 0
        THEN [raised |-> TRUE, called |-> FALSE, value |-> <<>>]
        ELSE IF ~ok
        THEN [raised |-> TRUE, called |-> TRUE, value |-> <<>>]
        ELSE [raised |-> FALSE, called |-> TRUE,
              value |-> embed_content(valid_texts)]

\* ------------------------------------------------------------------ state
VARIABLES
    store,     \* the owner's github_activity rows, in commit_date order,
               \* newest first: [commit_hash, commit_message, embedding, writes]
    job,       \* per invocation slot: the locals of the running job
    lastRun,   \* which operation the previous invocation was (history)
    others,    \* the github_activity rows of another owner
    rag,       \* the locals of a running search / context-builder request
    saving     \* the locals of a running save_github_commits / lookup call

vars == <<store, job, lastRun, others, rag, saving>>

Slots == {1, 2}

Rows(s) == 1..Len(s)

HasEmbedding(row) == row.embedding # NULL

\* commit_hash of the rows that lack a vector
Missing(s) == {s[i].commit_hash : i \in {k \in Rows(s) : ~HasEmbedding(s[k])}}

\* ------------------------------------------------------ GitHubDataService
get_commit_count(s) == Len(s)

\* round(with / total * 100, 2), in hundredths of a percent
Percentage(with, total) ==
    IF total > 0 THEN (with * 20000 + total) \div (2 * total) ELSE 0

\* Lines 586..597 of get_embedding_stats: the record computed from the two
\* counts the store returned.
StatsOfCounts(total_commits, commits_with_embeddings) ==
    [total_commits |-> total_commits,
     commits_with_embeddings |-> commits_with_embeddings,
     commits_without_embeddings |-> total_commits - commits_with_embeddings,
     percentage_complete |-> Percentage(commits_with_embeddings, total_commits),
     ready_for_search |-> commits_with_embeddings > 0]

\* Lines 599..607: the record of the except branch.
StatsOnError ==
    [total_commits |-> 0,
     commits_with_embeddings |-> 0,
     commits_without_embeddings |-> 0,
     percentage_complete |-> 0,
     ready_for_search |-> FALSE]

\* get_embedding_stats: any exception of the store is swallowed and reported
\* as an all-zero statistics record.
get_embedding_stats(s, ok) ==
    IF ok
    THEN StatsOfCounts(get_commit_count(s),
                       Cardinality({i \in Rows(s) : HasEmbedding(s[i])}))
    ELSE StatsOnError

\* Mutant: the query without its .is_("embedding", "null") filter.
SelectAnyEmbedding(s, limit) == SubSeq(s, 1, Min(limit, Len(s)))

\* .is_("embedding", "null").order("commit_date", desc=True).limit(limit)
SelectWithoutEmbedding(s, limit) ==
    LET IsNull(row) == ~HasEmbedding(row)
        rows == SelectSeq(s, IsNull)
    IN  SubSeq(rows, 1, Min(limit, Len(rows)))

\* Mutant: get_commits_without_embeddings without its .limit(limit).
FetchWithoutLimit(s, limit, ok) ==
    IF ok
    THEN LET rows == SelectWithoutEmbedding(s, Len(s))
         IN  [i \in 1..Len(rows) |->
                 [commit_hash |-> rows[i].commit_hash,
                  commit_message |-> rows[i].commit_message]]
    ELSE <<>>

\* get_commits_without_embeddings: an exception of the store yields [].
get_commits_without_embeddings(s, limit, ok) ==
    IF ok
    THEN LET rows == SelectWithoutEmbedding(s, limit)
         IN  [i \in 1..Len(rows) |->
                 [commit_hash |-> rows[i].commit_hash,
                  commit_message |-> rows[i].commit_message]]
    ELSE <<>>

\* Mutant: "return True" in place of "return len(result.data) > 0".
SaveAlwaysTrue(s, commit_hash, embedding, ok) ==
    LET hit == {i \in Rows(s) : s[i].commit_hash = commit_hash}
    IN  IF ok
        THEN [store |-> [i \in Rows(s) |->
                            IF i \in hit
                            THEN [s[i] EXCEPT
                                    !.embedding = embedding,
                                    !.writes = Min(@ + 1, MaxWrites)]
                            ELSE s[i]],
              result |-> TRUE]
        ELSE [store |-> s, result |-> FALSE]

\* save_commit_embedding: update ... where commit_hash = h; True iff a row
\* was updated, False (never an exception) otherwise.
save_commit_embedding(s, commit_hash, embedding, ok) ==
    LET hit == {i \in Rows(s) : s[i].commit_hash = commit_hash}
    IN  IF ok
        THEN [store |-> [i \in Rows(s) |->
                            IF i \in hit
                            THEN [s[i] EXCEPT
                                    !.embedding = embedding,
                                    !.writes = Min(@ + 1, MaxWrites)]
                            ELSE s[i]],
              result |-> hit # {}]
        ELSE [store |-> s, result |-> FALSE]

\* ------------------------------------------------------ EmbeddingJobService
NoStats == [total_commits |-> -1]

IdleJob ==
    [pc |-> "idle", kind |-> "none",
     batch_size |-> 0, max_commits |-> None,
     commits_to_process |-> 0,
     total_processed |-> 0, total_generated |-> 0,
     total_failed |-> 0, batches_processed |-> 0,
     initial_stats |-> NoStats,
     commits |-> <<>>, commit_embeddings |-> <<>>,
     success |-> 0, failed |-> 0,
     result |-> <<>>,
     given |-> <<>>,
     regenerate |-> FALSE,
     \* history of the invocation
     calls |-> [stats |-> 0, fetch |-> 0, provider |-> 0, save |-> 0],
     faults |-> {}, nfaults |-> 0, failed_calls |-> {},
     batch_log |-> <<>>, start_store |-> <<>>]

\* A call may fail only while the invocation's fault budget lasts.
FaultAllowed(l, ok) == ok \/ l.nfaults < MaxFaults

Fault(l, ok, what) ==
    IF ok THEN l
    ELSE [l EXCEPT !.faults = @ \cup {what}, !.nfaults = @ + 1]

Called(l, what) == [l EXCEPT !.calls[what] = @ + 1]

\* "batch_size or self.default_batch_size"
BatchSizeOrDefault(batch_size) ==
    IF Truthy(batch_size) THEN batch_size.v ELSE default_batch_size

\* "while total_processed < commits_to_process"
LoopTest(l) ==
    IF l.total_processed < l.commits_to_process
    THEN [l EXCEPT !.pc = "fetch"]
    ELSE [l EXCEPT !.pc = "final"]

\* Mutant: "current_batch_size = batch_size", the remaining count ignored.
FullBatchSize(l) == l.batch_size

\* "current_batch_size = min(batch_size, remaining)"; the new-commits job
\* passes its batch size as the limit.
CurrentBatchSize(l) ==
    IF l.kind = "user"
    THEN Min(l.batch_size, l.commits_to_process - l.total_processed)
    ELSE l.batch_size

\* generate_embeddings_for_user is called (lines 56..64).
CallGenerateEmbeddingsForUser(j, batch_size, max_commits) ==
    /\ job[j].pc = "idle"
    /\ job' = [job EXCEPT ![j] =
                 [IdleJob EXCEPT !.pc = "stats", !.kind = "user",
                                 !.batch_size = BatchSizeOrDefault(batch_size),
                                 !.max_commits = max_commits,
                                 !.start_store = store]]
    /\ UNCHANGED <<store, lastRun, others, rag, saving>>

\* generate_embedding_for_new_commits is called (line 208).
CallGenerateEmbeddingForNewCommits(j, batch_size) ==
    /\ job[j].pc = "idle"
    /\ job' = [job EXCEPT ![j] =
                 [IdleJob EXCEPT !.pc = "fetch", !.kind = "new",
                                 !.batch_size = BatchSizeOrDefault(batch_size),
                                 !.start_store = store]]
    /\ UNCHANGED <<store, lastRun, others, rag, saving>>

\* Lines 356..362: regenerate_embeddings wraps the summary that its call of
\* generate_embeddings_for_user returned; any other caller gets the summary.
Regenerated(l) ==
    IF l.regenerate /\ l.pc = "done"
    THEN [l EXCEPT !.kind = "regen",
                   !.result = [success |-> TRUE,
                               message |-> <<"Regenerated all embeddings">>,
                               summary |-> l.result]]
    ELSE l

\* regenerate_embeddings is called (lines 317..338); without force it
\* returns at once.
CallRegenerateEmbeddings(j, force) ==
    /\ job[j].pc = "idle"
    /\ job' = [job EXCEPT ![j] =
                 IF ~force
                 THEN [IdleJob EXCEPT
                         !.kind = "regen", !.pc = "done",
                         !.start_store = store,
                         !.result =
                            [success |-> FALSE,
                             message |-> <<"Use force=True to regenerate existing embeddings">>]]
                 ELSE [IdleJob EXCEPT
                         !.kind = "regen", !.pc = "activity",
                         !.regenerate = TRUE,
                         !.start_store = store]]
    /\ UNCHANGED <<store, lastRun, others, rag, saving>>

\* Mutant: no early return, the job runs on with a target of 0.
NoEarlyReturn(l, stats) == LoopTest([l EXCEPT !.commits_to_process = 0])

\* The early return of lines 73..80.
AlreadyDone(l, stats) ==
    [l EXCEPT !.pc = "done",
              !.result = [total_processed |-> 0,
                          embeddings_generated |-> 0,
                          failed |-> 0,
                          batches_processed |-> 0,
                          stats |-> stats,
                          message |-> <<"All commits already have embeddings">>]]

\* "if max_commits: commits_to_process = min(commits_to_process, max_commits)"
\* min(int, str) raises TypeError, which the outer handler catches.
ApplyMaxCommits(l, n) ==
    IF Truthy(l.max_commits)
    THEN IF l.max_commits.t = "str"
         THEN [l EXCEPT !.pc = "exc"]
         ELSE LoopTest([l EXCEPT !.commits_to_process = Min(n, l.max_commits.v)])
    ELSE LoopTest([l EXCEPT !.commits_to_process = n])

\* Lines 68..87: the initial statistics read and the target.
InitialStats(j, ok) ==
    /\ job[j].pc = "stats"
    /\ FaultAllowed(job[j], ok)
    /\ LET initial_stats == get_embedding_stats(store, ok)
           l == [Called(Fault(job[j], ok, "stats"), "stats")
                   EXCEPT !.initial_stats = initial_stats]
       IN  job' = [job EXCEPT ![j] =
                     IF initial_stats.commits_without_embeddings = 0
                     THEN Regenerated(AlreadyDone(l, initial_stats))
                     ELSE ApplyMaxCommits(
                              l, initial_stats.commits_without_embeddings)]
    /\ UNCHANGED <<store, lastRun, others, rag, saving>>

\* The summary of generate_embedding_for_new_commits.
NewCommitsSummary(l, generated, failed) ==
    [total_processed |-> Len(l.commits),
     embeddings_generated |-> generated,
     failed |-> failed,
     message |-> <<"Processed new commits", Len(l.commits)>>]

\* Lines 99..106 (211..222): fetch the next batch of the backlog.
FetchBatch(j, ok) ==
    /\ job[j].pc = "fetch"
    /\ FaultAllowed(job[j], ok)
    /\ LET commits == get_commits_without_embeddings(
                          store, CurrentBatchSize(job[j]), ok)
           l == [Called(Fault(job[j], ok, "fetch"), "fetch")
                   EXCEPT !.commits = commits]
       IN  job' = [job EXCEPT ![j] =
                     IF Len(commits) = 0
                     THEN IF l.kind = "user"
                          THEN [l EXCEPT !.pc = "final"]
                          ELSE [l EXCEPT
                                  !.pc = "done",
                                  !.result =
                                     [total_processed |-> 0,
                                      embeddings_generated |-> 0,
                                      failed |-> 0,
                                      message |-> <<"No new commits to process">>]]
                     ELSE [l EXCEPT
                             !.pc = "embed",
                             !.batch_log = Append(@,
                                {commits[i].commit_hash : i \in 1..Len(commits)})]]
    /\ UNCHANGED <<store, lastRun, others, rag, saving>>

\* Lines 135..138 (253..258): the counters after a batch was saved.
AfterSave(l) ==
    IF l.kind = "user"
    THEN LoopTest([l EXCEPT
                     !.total_generated = @ + l.success,
                     !.total_failed = @ + l.failed,
                     !.total_processed = @ + Len(l.commits),
                     !.batches_processed = @ + 1])
    ELSE [l EXCEPT !.pc = "done",
                   !.result = NewCommitsSummary(l, l.success, l.failed)]

\* Lines 144..149 (260..268): generate_embeddings_batch raised.
BatchFailed(l) ==
    IF l.kind = "user"
    THEN LoopTest([l EXCEPT
                     !.total_failed = @ + Len(l.commits),
                     !.total_processed = @ + Len(l.commits),
                     !.batches_processed = @ + 1])
    ELSE [l EXCEPT !.pc = "done",
                   !.result =
                      [total_processed |-> Len(l.commits),
                       embeddings_generated |-> 0,
                       failed |-> Len(l.commits),
                       error |-> TRUE,
                       message |-> <<"Failed to process new commits">>]]

\* Mutant: "if i < len(embeddings) - 1", the last pair is dropped.
PrepareBatchShort(commits, embeddings) ==
    [i \in 1..(Min(Len(commits), Len(embeddings)) - 1) |->
        [commit_hash |-> commits[i].commit_hash,
         embedding |-> embeddings[i]]]

\* Lines 121..127 (237..243): pair commits[i] with embeddings[i].
PrepareBatch(commits, embeddings) ==
    [i \in 1..Min(Len(commits), Len(embeddings)) |->
        [commit_hash |-> commits[i].commit_hash,
         embedding |-> embeddings[i]]]

\* Lines 109..127 (227..243): embed the messages of the fetched batch.
EmbedBatch(j, ok) ==
    /\ job[j].pc = "embed"
    /\ LET commits == job[j].commits
           commit_messages == [i \in 1..Len(commits) |-> commits[i].commit_message]
           r == generate_embeddings_batch(commit_messages, ok)
           n == Len(job[j].batch_log)
           l0 == IF r.called
                 THEN Called(Fault(job[j], ok, "embed"), "provider")
                 ELSE job[j]
           l == IF r.raised THEN [l0 EXCEPT !.failed_calls = @ \cup {n}] ELSE l0
       IN  /\ IF r.called THEN FaultAllowed(job[j], ok) ELSE ok
           /\ job' = [job EXCEPT ![j] =
                        IF r.raised
                        THEN BatchFailed(l)
                        ELSE LET l1 == [l EXCEPT
                                          !.commit_embeddings =
                                              PrepareBatch(commits, r.value),
                                          !.success = 0, !.failed = 0]
                             IN  IF Len(l1.commit_embeddings) = 0
                                 THEN AfterSave(l1)
                                 ELSE [l1 EXCEPT !.pc = "save"]]
    /\ UNCHANGED <<store, lastRun, others, rag, saving>>

\* save_commit_embeddings_batch is called by itself with a list of items
\* (lines 339..355); given keeps the argument.
CallSaveCommitEmbeddingsBatch(j, commit_embeddings) ==
    /\ job[j].pc = "idle"
    /\ job' = [job EXCEPT ![j] =
                 [IdleJob EXCEPT
                    !.kind = "batch",
                    !.given = commit_embeddings,
                    !.commit_embeddings = commit_embeddings,
                    !.start_store = store,
                    !.pc = IF Len(commit_embeddings) = 0 THEN "done" ELSE "save",
                    !.result = IF Len(commit_embeddings) = 0
                               THEN [success |-> 0, failed |-> 0] ELSE <<>>]]
    /\ UNCHANGED <<store, lastRun, others, rag, saving>>

\* Lines 371..374: the counts save_commit_embeddings_batch returns; a job
\* that called it goes on with them (lines 135..138).
SaveBatchReturn(l) ==
    IF l.kind = "batch"
    THEN [l EXCEPT !.pc = "done",
                   !.result = [success |-> l.success, failed |-> l.failed]]
    ELSE AfterSave(l)

\* One iteration of save_commit_embeddings_batch (lines 357..369); after the
\* last item the counts are returned.
SaveOne(j, ok) ==
    /\ job[j].pc = "save"
    /\ LET item == Head(job[j].commit_embeddings)
           skip == item.commit_hash = 0 \/ item.embedding = <<>>
           r == save_commit_embedding(store, item.commit_hash, item.embedding, ok)
           l0 == IF skip THEN job[j]
                 ELSE Called(Fault(job[j], ok, "save"), "save")
           l == [l0 EXCEPT
                   !.commit_embeddings = Tail(@),
                   !.success = IF ~skip /\ r.result THEN @ + 1 ELSE @,
                   !.failed = IF ~skip /\ r.result THEN @ ELSE @ + 1]
       IN  /\ IF skip THEN ok ELSE FaultAllowed(job[j], ok)
           /\ store' = IF skip THEN store ELSE r.store
           /\ job' = [job EXCEPT ![j] =
                        IF Len(l.commit_embeddings) = 0
                        THEN SaveBatchReturn(l) ELSE l]
    /\ UNCHANGED <<lastRun, others, rag, saving>>

\* Lines 152..168: the final statistics read and the summary.
FinalStats(j, ok) ==
    /\ job[j].pc = "final"
    /\ FaultAllowed(job[j], ok)
    /\ LET final_stats == get_embedding_stats(store, ok)
           l == Called(Fault(job[j], ok, "final"), "stats")
       IN  job' = [job EXCEPT ![j] = Regenerated(
                     [l EXCEPT
                        !.pc = "done",
                        !.result =
                           [total_processed |-> l.total_processed,
                            embeddings_generated |-> l.total_generated,
                            failed |-> l.total_failed,
                            batches_processed |-> l.batches_processed,
                            stats |-> final_stats,
                            message |-> <<"Generated", l.total_generated,
                                          l.batches_processed>>]])]
    /\ UNCHANGED <<store, lastRun, others, rag, saving>>

\* Mutant: the outer handler re-raises instead of returning a summary.
OuterExceptReraise(j, ok) ==
    /\ job[j].pc = "exc"
    /\ ok
    /\ job' = [job EXCEPT ![j].pc = "raised"]
    /\ UNCHANGED <<store, lastRun, others, rag, saving>>

\* Lines 170..189: the outer handler returns the counters so far.
OuterExcept(j, ok) ==
    /\ job[j].pc = "exc"
    /\ FaultAllowed(job[j], ok)
    /\ LET current_stats == get_embedding_stats(store, ok)
           l == Called(Fault(job[j], ok, "final"), "stats")
       IN  job' = [job EXCEPT ![j] = Regenerated(
                     [l EXCEPT
                        !.pc = "done",
                        !.result =
                           [total_processed |-> l.total_processed,
                            embeddings_generated |-> l.total_generated,
                            failed |-> l.total_failed,
                            batches_processed |-> l.batches_processed,
                            stats |-> current_stats,
                            error |-> TRUE,
                            message |-> <<"Partial completion",
                                          l.total_generated>>]])]
    /\ UNCHANGED <<store, lastRun, others, rag, saving>>

\* EmbeddingService.generate_embeddings_batch is called by itself with a
\* list of texts and returns or raises; given keeps the argument.
CallGenerateEmbeddingsBatch(j, texts, ok) ==
    /\ job[j].pc = "idle"
    /\ LET r == generate_embeddings_batch(texts, ok)
           l == [IdleJob EXCEPT !.kind = "embed", !.given = texts,
                                !.result = r,
                                !.pc = IF r.raised THEN "raised" ELSE "done"]
       IN  /\ r.called \/ ok
           /\ job' = [job EXCEPT ![j] =
                        IF r.called THEN Called(Fault(l, ok, "embed"), "provider")
                        ELSE l]
    /\ UNCHANGED <<store, lastRun, others, rag, saving>>

\* get_embedding_stats is called by itself (line 568); its two count queries
\* are two requests to the store, and other calls may write between them.
CallGetEmbeddingStats(j) ==
    /\ job[j].pc = "idle"
    /\ job' = [job EXCEPT ![j] = [IdleJob EXCEPT !.pc = "count",
                                                !.kind = "stats",
                                                !.start_store = store]]
    /\ UNCHANGED <<store, lastRun, others, rag, saving>>

\* Line 579: total_commits = await self.get_commit_count(user_id), kept in
\* initial_stats until the record is built; an exception goes to the except
\* branch of get_embedding_stats.
CountCommits(j, ok) ==
    /\ job[j].pc = "count"
    /\ FaultAllowed(job[j], ok)
    /\ LET l == Called(Fault(job[j], ok, "stats"), "stats")
       IN  job' = [job EXCEPT ![j] =
                     IF ok
                     THEN [l EXCEPT
                             !.pc = "count_with",
                             !.initial_stats =
                                 [total_commits |-> get_commit_count(store)]]
                     ELSE [l EXCEPT !.pc = "done", !.result = StatsOnError]]
    /\ UNCHANGED <<store, lastRun, others, rag, saving>>

\* Lines 582..597: the count of the rows with a vector, and the record.
CountWithEmbeddings(j, ok) ==
    /\ job[j].pc = "count_with"
    /\ FaultAllowed(job[j], ok)
    /\ LET l == Called(Fault(job[j], ok, "stats"), "stats")
           commits_with_embeddings ==
               Cardinality({i \in Rows(store) : HasEmbedding(store[i])})
       IN  job' = [job EXCEPT ![j] =
                     [l EXCEPT
                        !.pc = "done",
                        !.result =
                           IF ok
                           THEN StatsOfCounts(l.initial_stats.total_commits,
                                              commits_with_embeddings)
                           ELSE StatsOnError]]
    /\ UNCHANGED <<store, lastRun, others, rag, saving>>

\* The status messages of get_embedding_status (lines 293..302); n is the
\* number put into the f-string.
AllDone == <<"All commits have embeddings - ready for semantic search!">>
AlmostDone(n) == <<"Almost done!", n, "commits remaining">>
Halfway(n) == <<"Halfway there!", n, "commits remaining">>
InProgress(n) == <<"In progress:", n, "commits remaining">>
NotStarted(n) == <<"Not started:", n, "commits need embeddings">>

\* get_embedding_status, lines 288..315, from the statistics it read;
\* percentages are in hundredths of a percent.
get_embedding_status(stats) ==
    LET commits_needing == stats.commits_without_embeddings
        estimated_batches ==
            (commits_needing + default_batch_size - 1) \div default_batch_size
        status_message ==
            IF stats.percentage_complete = 10000 THEN AllDone
            ELSE IF stats.percentage_complete >= 7500
                 THEN AlmostDone(commits_needing)
            ELSE IF stats.percentage_complete >= 5000
                 THEN Halfway(commits_needing)
            ELSE IF stats.percentage_complete > 0
                 THEN InProgress(commits_needing)
            ELSE NotStarted(commits_needing)
    IN  [total_commits |-> stats.total_commits,
         commits_with_embeddings |-> stats.commits_with_embeddings,
         commits_needing_embeddings |-> stats.commits_without_embeddings,
         percentage_complete |-> stats.percentage_complete,
         ready_for_search |-> stats.ready_for_search,
         estimated_batches_remaining |-> estimated_batches,
         estimated_api_calls |-> estimated_batches,
         status_message |-> status_message]

\* get_embedding_status is called (line 270).
CallGetEmbeddingStatus(j) ==
    /\ job[j].pc = "idle"
    /\ job' = [job EXCEPT ![j] = [IdleJob EXCEPT !.pc = "status",
                                                !.kind = "status"]]
    /\ UNCHANGED <<store, lastRun, others, rag, saving>>

\* Lines 286..315: the statistics are read and the status is returned.  The
\* owner's table is given by the two counts its queries return.
StatusFromStats(j, total_commits, commits_with_embeddings, ok) ==
    /\ job[j].pc = "status"
    /\ FaultAllowed(job[j], ok)
    /\ LET stats == IF ok
                    THEN StatsOfCounts(total_commits, commits_with_embeddings)
                    ELSE StatsOnError
           l == Called(Fault(job[j], ok, "stats"), "stats")
       IN  job' = [job EXCEPT ![j] =
                     [l EXCEPT !.pc = "done",
                               !.initial_stats = stats,
                               !.result = get_embedding_status(stats)]]
    /\ UNCHANGED <<store, lastRun, others, rag, saving>>

NoRun == "none"

\* The summary reaches the caller; the invocation is over.
Return(j) ==
    /\ job[j].pc = "done"
    /\ job' = [job EXCEPT ![j] = IdleJob]
    /\ lastRun' = job[j].kind
    /\ UNCHANGED <<store, others, rag, saving>>

\* ------------------------------------------------------- search and context
\* The two owners of the model: store holds Owner's rows, others holds
\* OtherOwner's.
Owner == "A"
OtherOwner == "B"
Table(user_id) == IF user_id = Owner THEN store ELSE others

\* Similarities and thresholds are in hundred-thousandths: One is 1.0.
One == 100000

Take(seq, n) == SubSeq(seq, 1, Min(n, Len(seq)))

Hashes(rows) == [i \in 1..Len(rows) |-> rows[i].commit_hash]
HashSet(rows) == {rows[i].commit_hash : i \in 1..Len(rows)}

\* sklearn cosine_similarity of two vectors
cosine_similarity(a, b) ==
    IF Norm(a) = 0 \/ Norm(b) = 0 THEN 0
    ELSE (Dot(a, b) * One) \div (Norm(a) * Norm(b))

\* round(similarity, 4)
Round4(x) == ((x + 5) \div 10) * 10

\* list.sort(key = similarity, reverse = True): stable, highest first
RECURSIVE InsertDesc(_, _)
InsertDesc(sorted, r) ==
    IF sorted = <<>> THEN <<r>>
    ELSE IF Head(sorted).similarity >= r.similarity
    THEN <<Head(sorted)>> \o InsertDesc(Tail(sorted), r)
    ELSE <<r>> \o sorted

RECURSIVE SortDesc(_)
SortDesc(seq) ==
    IF seq = <<>> THEN <<>>
    ELSE InsertDesc(SortDesc(SubSeq(seq, 1, Len(seq) - 1)), seq[Len(seq)])

\* GitHubDataService.get_commits_with_embeddings: the newest limit rows of
\* the owner that hold a vector; [] when the store call fails.
get_commits_with_embeddings(user_id, limit, ok) ==
    IF ok THEN Take(SelectSeq(Table(user_id), HasEmbedding), limit) ELSE <<>>

Hit(row, similarity) ==
    [commit_hash |-> row.commit_hash, commit_message |-> row.commit_message,
     similarity |-> similarity]

\* The fallback's threshold test without the threshold.
KeepAll(similarity, min_similarity) == TRUE

\* "if similarity >= min_similarity"
Keep(similarity, min_similarity) == similarity >= min_similarity

\* The rows of commits that pass the threshold, in the order of commits,
\* each with its rounded similarity.
RECURSIVE Scored(_, _, _)
Scored(commits, query_embedding, min_similarity) ==
    IF commits = <<>> THEN <<>>
    ELSE LET similarity == cosine_similarity(query_embedding,
                                             Head(commits).embedding)
             rest == Scored(Tail(commits), query_embedding, min_similarity)
         IN  IF Keep(similarity, min_similarity)
             THEN <<Hit(Head(commits), Round4(similarity))>> \o rest
             ELSE rest

\* The fallback's ranking without its sort.
FallbackRankUnsorted(commits, query_embedding, limit, min_similarity) ==
    Take(Scored(commits, query_embedding, min_similarity), limit)

\* GitHubDataService._search_similar_commits_fallback, after its load of
\* commits: score, filter, sort, truncate.
FallbackRank(commits, query_embedding, limit, min_similarity) ==
    IF commits = <<>> THEN <<>>
    ELSE Take(SortDesc(Scored(commits, query_embedding, min_similarity)), limit)

\* The store-side function search_similar_commits(query_user_id,
\* query_embedding, match_threshold, match_count): the owner's rows with a
\* vector whose cosine distance is within match_threshold, nearest first,
\* at most match_count of them.
RECURSIVE Within(_, _, _)
Within(rows, query_embedding, match_threshold) ==
    IF rows = <<>> THEN <<>>
    ELSE LET similarity == cosine_similarity(query_embedding,
                                             Head(rows).embedding)
             rest == Within(Tail(rows), query_embedding, match_threshold)
         IN  IF One - similarity <= match_threshold
             THEN <<Hit(Head(rows), similarity)>> \o rest
             ELSE rest

rpc_search_similar_commits(args) ==
    Take(SortDesc(Within(SelectSeq(Table(args.query_user_id), HasEmbedding),
                         args.query_embedding, args.match_threshold)),
         args.match_count)

\* The arguments search_similar_commits passes to the store-side function,
\* with the threshold passed as given.
RpcArgsSameThreshold(user_id, query_embedding, limit, min_similarity) ==
    [query_user_id |-> user_id, query_embedding |-> query_embedding,
     match_threshold |-> min_similarity, match_count |-> limit]

\* The arguments search_similar_commits passes to the store-side function.
RpcArgs(user_id, query_embedding, limit, min_similarity) ==
    [query_user_id |-> user_id, query_embedding |-> query_embedding,
     match_threshold |-> One - min_similarity, match_count |-> limit]

\* What ContextService.get_user_context finds for the owner: no row (None)
\* or the stored context row.
NoProfile ==
    [found |-> FALSE, projects |-> <<>>, tech_stack |-> <<>>,
     focus_areas |-> <<>>]
Profiles ==
    {NoProfile,
     [found |-> TRUE, projects |-> <<"p1", "p2", "p3", "p4">>,
      tech_stack |-> <<>>, focus_areas |-> <<>>]}

\* The context dict build_context_for_generation starts from, and the one
\* its except branch returns (has_error: the "error" key).
EmptyContext(has_error) ==
    [relevant_commits |-> <<>>, recent_commits |-> <<>>,
     user_context |-> NoProfile, prompt_analysis |-> <<>>,
     formatted_context |-> <<>>, has_error |-> has_error]

\* The agent state plan_node works on: each key is unset or holds a value.
Unset == [set |-> FALSE, v |-> <<>>]
Set(v) == [set |-> TRUE, v |-> v]
NoState == [is_valid |-> Unset, rag_context |-> Unset, error |-> Unset]

IdleRag ==
    [pc |-> "idle", kind |-> "none",
     user_prompt |-> <<>>, include_recent |-> FALSE, max_commits |-> 0,
     window |-> 0,
     query_embedding |-> <<>>, limit |-> 0, min_similarity |-> 0,
     results |-> <<>>, context |-> EmptyContext(FALSE), state |-> NoState,
     \* history of the request
     rpc_args |-> <<>>, rpc_raised |-> FALSE, path |-> "none",
     fallback_failed |-> FALSE,
     recent_called |-> FALSE, recent_raised |-> FALSE,
     context_raised |-> FALSE, assembled |-> EmptyContext(FALSE),
     raised |-> FALSE]

\* ----- GitHubDataService.search_similar_commits, called with a query vector
CallSearchSimilarCommits(query_embedding, limit, min_similarity) ==
    /\ rag.pc = "idle"
    /\ rag' = [rag EXCEPT !.pc = "rpc", !.kind = "search",
                          !.query_embedding = query_embedding,
                          !.limit = limit,
                          !.min_similarity = min_similarity]
    /\ UNCHANGED <<store, job, lastRun, others, saving>>

\* Where a request goes once search_similar_commits has returned results:
\* a direct search is done, the builder goes on with the recent commits.
AfterSearch(l, results) ==
    IF l.kind = "search"
    THEN [l EXCEPT !.pc = "done", !.results = results]
    ELSE [l EXCEPT !.pc = "recent", !.results = results,
                   !.context.relevant_commits = results]

\* self.supabase.rpc('search_similar_commits', {...}).execute():
\* "return result.data if result.data else []", or the except branch.
Rpc(ok) ==
    /\ rag.pc = "rpc"
    /\ LET args == RpcArgs(Owner, rag.query_embedding, rag.limit,
                           rag.min_similarity)
           l == [rag EXCEPT !.rpc_args = args]
       IN  rag' = IF ok
                  THEN AfterSearch([l EXCEPT !.path = "primary"],
                                   rpc_search_similar_commits(args))
                  ELSE [l EXCEPT !.pc = "fallback", !.rpc_raised = TRUE]
    /\ UNCHANGED <<store, job, lastRun, others, saving>>

\* _search_similar_commits_fallback: one store call (which returns [] when
\* it fails), then the ranking in process.
Fallback(ok) ==
    /\ rag.pc = "fallback"
    /\ rag' = AfterSearch(
                  [rag EXCEPT !.path = "fallback", !.fallback_failed = ~ok],
                  FallbackRank(get_commits_with_embeddings(Owner, MaxLoad, ok),
                               rag.query_embedding, rag.limit,
                               rag.min_similarity))
    /\ UNCHANGED <<store, job, lastRun, others, saving>>


\* ----- RAGContextBuilder
\* GitHubDataService.get_user_github_activity(user_id, limit, days = 7):
\* the newest limit rows of the owner among those of the last seven days.
\* Rows are newest first, so the rows of the window are the first window
\* ones.  The call has no try/except: a store failure raises.
get_user_github_activity(user_id, limit, window) ==
    Take(Take(Table(user_id), window), limit)

\* The exclusion test of _get_recent_commits excluding nothing.
NothingExcluded(c, exclude_hashes) == TRUE

\* "c.get("commit_hash") not in exclude_hashes"
NotExcluded(c, exclude_hashes) == c.commit_hash \notin exclude_hashes

RecentHit(row) ==
    [commit_hash |-> row.commit_hash, commit_message |-> row.commit_message,
     similarity |-> 0]

\* RAGContextBuilder._get_recent_commits; [] when the store call raises.
_get_recent_commits(user_id, limit, exclude_hashes, window, ok) ==
    IF ~ok THEN <<>>
    ELSE LET commits == get_user_github_activity(user_id, limit * 2, window)
             filtered == SelectSeq(commits,
                                   LAMBDA c : NotExcluded(c, exclude_hashes))
         IN  Take([i \in 1..Len(filtered) |-> RecentHit(filtered[i])], limit)

\* RAGContextBuilder._analyze_prompt, for the prompts of the model (none of
\* them holds a topic or intent keyword): length is len(prompt.split()).
_analyze_prompt(prompt) ==
    [topics |-> <<>>, intent |-> "general",
     length |-> Len(SelectSeq(prompt, LAMBDA ch : ch # " "))]

\* f"{similarity*100:.0f}"
Pct(similarity) == (similarity * 100 + One \div 2) \div One

\* RAGContextBuilder._format_context_for_prompt.  The string is modelled as
\* the sequence of its lines, each line a tuple of its parts; "" is <<>>.
RECURSIVE RelevantLines(_, _)
RelevantLines(commits, i) ==
    IF commits = <<>> THEN <<>>
    ELSE <<<<"Commit", i, Pct(Head(commits).similarity)>>,
           <<"Repository", Head(commits).commit_hash>>,
           <<"What you did", Head(commits).commit_message>>,
           <<>>>> \o RelevantLines(Tail(commits), i + 1)

RecentLines(commits) ==
    [i \in 1..Len(commits) |-> <<i, commits[i].commit_message>>]

\* Mutant: the profile lines without their [:3], [:5] and [:2].
ProfileLinesUncapped(user_ctx) ==
    IF user_ctx.found
    THEN (IF user_ctx.projects # <<>>
          THEN <<<<"ACTIVE PROJECTS", user_ctx.projects>>>> ELSE <<>>)
         \o
         (IF user_ctx.tech_stack # <<>>
          THEN <<<<"TECH STACK", user_ctx.tech_stack>>>> ELSE <<>>)
         \o
         (IF user_ctx.focus_areas # <<>>
          THEN <<<<"FOCUS AREAS", user_ctx.focus_areas>>>> ELSE <<>>)
         \o
         (IF user_ctx.projects # <<>> \/ user_ctx.tech_stack # <<>>
             \/ user_ctx.focus_areas # <<>>
          THEN <<<<>>>> ELSE <<>>)
    ELSE <<>>

\* Lines 292..311: the lines of the owner's profile, each only if present.
ProfileLines(user_ctx) ==
    IF user_ctx.found
    THEN (IF user_ctx.projects # <<>>
          THEN <<<<"ACTIVE PROJECTS", Take(user_ctx.projects, 3)>>>> ELSE <<>>)
         \o
         (IF user_ctx.tech_stack # <<>>
          THEN <<<<"TECH STACK", Take(user_ctx.tech_stack, 5)>>>> ELSE <<>>)
         \o
         (IF user_ctx.focus_areas # <<>>
          THEN <<<<"FOCUS AREAS", Take(user_ctx.focus_areas, 2)>>>> ELSE <<>>)
         \o
         (IF user_ctx.projects # <<>> \/ user_ctx.tech_stack # <<>>
             \/ user_ctx.focus_areas # <<>>
          THEN <<<<>>>> ELSE <<>>)
    ELSE <<>>

_format_context_for_prompt(context) ==
    (IF context.relevant_commits # <<>>
     THEN <<<<"YOUR ACTUAL WORK">>, <<>>>>
          \o RelevantLines(Take(context.relevant_commits, 3), 1)
     ELSE <<>>)
    \o
    (IF context.recent_commits # <<>>
     THEN <<<<"RECENT ACTIVITY">>>>
          \o RecentLines(Take(context.recent_commits, 2)) \o <<<<>>>>
     ELSE <<>>)
    \o
    ProfileLines(context.user_context)

\* _format_context_for_prompt applied to a context dict that holds the
\* given hits and profile.
FormatContext(relevant_commits, recent_commits, user_context) ==
    /\ rag.pc = "idle"
    /\ LET context == [EmptyContext(FALSE) EXCEPT
                          !.relevant_commits = relevant_commits,
                          !.recent_commits = recent_commits,
                          !.user_context = user_context]
       IN  rag' = [IdleRag EXCEPT
                     !.kind = "format", !.pc = "done",
                     !.context = [context EXCEPT
                                    !.formatted_context =
                                        _format_context_for_prompt(context)]]
    /\ UNCHANGED <<store, job, lastRun, others, saving>>

\* build_context_for_generation(user_id, user_prompt, include_recent,
\* max_commits)
CallBuildContext(user_prompt, include_recent, max_commits) ==
    /\ rag.pc = "idle"
    /\ rag' = [rag EXCEPT !.pc = "query", !.kind = "build",
                          !.user_prompt = user_prompt,
                          !.include_recent = include_recent,
                          !.max_commits = max_commits]
    /\ UNCHANGED <<store, job, lastRun, others, saving>>

\* plan_node(state) with a user_id: an empty prompt is invalid; otherwise
\* get_context_for_tweet_generation calls the builder with
\* include_recent = True, max_commits = 5.
CallPlanNode(user_prompt) ==
    /\ rag.pc = "idle"
    /\ rag' = IF ~NonBlank(user_prompt)
              THEN [rag EXCEPT !.pc = "done", !.kind = "plan",
                               !.user_prompt = user_prompt,
                               !.state = [is_valid |-> Set(FALSE),
                                          rag_context |-> Unset,
                                          error |-> Set("User prompt is empty")]]
              ELSE [rag EXCEPT !.pc = "query", !.kind = "plan",
                               !.user_prompt = user_prompt,
                               !.include_recent = TRUE,
                               !.max_commits = 5,
                               !.state.error = Set("None")]
    /\ UNCHANGED <<store, job, lastRun, others, saving>>

\* _get_relevant_commits, first call: generate_query_embedding(query).  When
\* it raises, the except branch returns [] and the search is not made.
QueryEmbedding(ok) ==
    /\ rag.pc = "query"
    /\ LET r == generate_embedding(rag.user_prompt, ok)
       IN  rag' = IF r.raised
                  THEN [rag EXCEPT !.pc = "recent"]
                  ELSE [rag EXCEPT !.pc = "rpc",
                                   !.query_embedding = r.value,
                                   !.limit = rag.max_commits,
                                   !.min_similarity = One \div 2]
    /\ UNCHANGED <<store, job, lastRun, others, saving>>

\* "if include_recent and len(relevant_commits) < max_commits": the top-up
\* with recent commits, or nothing.  window is how many of the owner's rows
\* are of the last seven days when the store is read.
RecentCommits(window, ok) ==
    /\ rag.pc = "recent"
    /\ window <= Len(store)
    /\ LET relevant_commits == rag.context.relevant_commits
           wanted == rag.include_recent
                     /\ Len(relevant_commits) < rag.max_commits
       IN  /\ wanted \/ (ok /\ window = 0)
           /\ rag' = IF wanted
                     THEN [rag EXCEPT
                              !.pc = "context", !.recent_called = TRUE,
                              !.recent_raised = ~ok,
                              !.window = window,
                              !.context.recent_commits =
                                  _get_recent_commits(
                                      Owner,
                                      rag.max_commits - Len(relevant_commits),
                                      HashSet(relevant_commits),
                                      window, ok)]
                     ELSE [rag EXCEPT !.pc = "context"]
    /\ UNCHANGED <<store, job, lastRun, others, saving>>

\* The except branch of build_context_for_generation raising instead of
\* returning.
BuilderExceptReraise(l) == [l EXCEPT !.raised = TRUE]

\* The except branch of build_context_for_generation: the minimal context
\* with an "error" key.
BuilderExcept(l) == [l EXCEPT !.context = EmptyContext(TRUE)]

\* What the caller of the builder does next: plan_node has a step left.
Built(l) == [l EXCEPT !.pc = IF l.kind = "plan" THEN "built" ELSE "done"]

\* context_service.get_user_context (which has no try/except) returning
\* profile or raising, then _analyze_prompt and _format_context_for_prompt,
\* and the return.
UserContext(profile, ok) ==
    /\ rag.pc = "context"
    /\ ok \/ profile = NoProfile
    /\ rag' = IF ok
              THEN LET context ==
                           [rag.context EXCEPT
                               !.user_context = profile,
                               !.prompt_analysis =
                                   _analyze_prompt(rag.user_prompt)]
                   IN  Built([rag EXCEPT
                                 !.context =
                                     [context EXCEPT
                                         !.formatted_context =
                                             _format_context_for_prompt(context)]])
              ELSE Built(BuilderExcept([rag EXCEPT !.context_raised = TRUE,
                                                   !.assembled = rag.context]))
    /\ UNCHANGED <<store, job, lastRun, others, saving>>

\* plan_node after get_context_for_tweet_generation: rag_context is the
\* formatted context, or "" when the call raised; the request is valid.
PlanNodeReturn ==
    /\ rag.pc = "built"
    /\ rag' = [rag EXCEPT
                  !.pc = "done",
                  !.state.rag_context =
                      Set(IF rag.raised THEN <<>>
                          ELSE rag.context.formatted_context),
                  !.state.is_valid = Set(TRUE)]
    /\ UNCHANGED <<store, job, lastRun, others, saving>>

\* ----- GitHubDataService.save_github_commits, get_embedding_for_commit
\* A freshly stored row has no vector.
NewRow(h, t) ==
    [commit_hash |-> h, commit_message |-> t, embedding |-> NULL, writes |-> 0]

IdleSaving ==
    [pc |-> "idle", user_id |-> Owner, n |-> 0, sha |-> 0,
     new_commits |-> 0, skipped |-> 0, result |-> <<>>,
     commit_hash |-> 0, embedding |-> NULL,
     \* history of the call
     submitted |-> {}, resubmitted |-> 0,
     faulted |-> FALSE, start_store |-> <<>>, start_others |-> <<>>]

\* The existence check of save_github_commits finding nothing.
ExistingNone(commit_hash) == <<>>

\* table("github_activity").select("id").eq("commit_hash", commit_hash):
\* the rows of the table, of whatever owner, with this commit_hash.
Existing(commit_hash) ==
    SelectSeq(store \o others, LAMBDA row : row.commit_hash = commit_hash)

\* An owner's rows are kept newest first.  A commit's date belongs to the
\* commit: commit h is dated so that a lower hash is a newer commit, as in
\* the stores above.
InsertByDate(rows, row) ==
    LET k == Cardinality({i \in 1..Len(rows) :
                             rows[i].commit_hash <= row.commit_hash})
    IN  SubSeq(rows, 1, k) \o <<row>> \o SubSeq(rows, k + 1, Len(rows))

\* save_github_commits(user_id, commits_data).  The commits of commits_data
\* are drawn one by one as the loop reaches them; n counts them.
CallSaveGithubCommits(user_id) ==
    /\ saving.pc = "idle"
    /\ saving' = [IdleSaving EXCEPT
                     !.pc = "loop", !.user_id = user_id,
                     !.start_store = store, !.start_others = others]
    /\ UNCHANGED <<store, job, lastRun, others, rag>>

\* "skipped += 1; continue"
Skip(l) == [l EXCEPT !.skipped = @ + 1, !.pc = "loop"]

\* "new_commits += 1"
Inserted(l) == [l EXCEPT !.new_commits = @ + 1, !.pc = "loop"]

\* The next commit of commits_data and its existence check; an exception
\* skips the commit.
CheckExisting(sha, ok) ==
    /\ saving.pc = "loop"
    /\ saving.n < MaxBatch
    /\ LET start == IF saving.user_id = Owner THEN saving.start_store
                    ELSE saving.start_others
           l == [saving EXCEPT
                    !.n = @ + 1, !.sha = sha,
                    !.submitted = @ \cup {sha},
                    !.resubmitted =
                        IF sha \in HashSet(start) THEN @ + 1 ELSE @]
       IN  saving' = IF ~ok THEN Skip([l EXCEPT !.faulted = TRUE])
                     ELSE IF Existing(sha) # <<>> THEN Skip(l)
                     ELSE [l EXCEPT !.pc = "insert"]
    /\ UNCHANGED <<store, job, lastRun, others, rag>>

\* The insert of the commit; an exception skips the commit.
InsertCommit(ok) ==
    /\ saving.pc = "insert"
    /\ LET row == NewRow(saving.sha, <<"b">>)
       IN  IF ~ok
           THEN /\ saving' = Skip([saving EXCEPT !.faulted = TRUE])
                /\ UNCHANGED <<store, others>>
           ELSE /\ saving' = Inserted(saving)
                /\ IF saving.user_id = Owner
                   THEN /\ store' = InsertByDate(store, row)
                        /\ UNCHANGED others
                   ELSE /\ others' = InsertByDate(others, row)
                        /\ UNCHANGED store
    /\ UNCHANGED <<job, lastRun, rag>>

\* The end of commits_data:
\* return {"new_commits": new_commits, "skipped": skipped}
SaveReturn ==
    /\ saving.pc = "loop"
    /\ saving' = [saving EXCEPT
                     !.pc = "done",
                     !.result = [new_commits |-> saving.new_commits,
                                 skipped |-> saving.skipped]]
    /\ UNCHANGED <<store, job, lastRun, others, rag>>

\* get_embedding_for_commit(commit_hash): the vector of result.data[0], the
\* first row the unscoped select returns (any of the matching rows), or
\* None; None too when the store call fails.
GetEmbeddingForCommit(commit_hash, k, ok) ==
    /\ saving.pc = "idle"
    /\ LET data == SelectSeq(store \o others,
                             LAMBDA row : row.commit_hash = commit_hash)
       IN  /\ IF ok /\ data # <<>> THEN k \in 1..Len(data) ELSE k = 1
           /\ saving' = [IdleSaving EXCEPT
                            !.pc = "looked", !.commit_hash = commit_hash,
                            !.faulted = ~ok,
                            !.start_store = store, !.start_others = others,
                            !.embedding =
                                IF ok /\ data # <<>> THEN data[k].embedding
                                ELSE NULL]
    /\ UNCHANGED <<store, job, lastRun, others, rag>>

\* The call has returned; the next one may start.
NextCall ==
    /\ saving.pc \in {"done", "looked"}
    /\ saving' = IdleSaving
    /\ UNCHANGED <<store, job, lastRun, others, rag>>

\* ---------------------------------------------------------- specification
\* What callers pass (main.py: request.get("batch_size", 50),
\* request.get("max_commits")).
BatchSizes == {None} \cup {PyInt(n) : n \in 0..MaxBatch}
MaxCommits == {None, PyStr} \cup {PyInt(n) : n \in 0..MaxCap}

Stores ==
    UNION {{[i \in 1..n |-> NewRow(i, m[i])] : m \in [1..n -> Texts]}
           : n \in 0..MaxRecords}

Init ==
    /\ store \in Stores
    /\ job = [j \in Slots |-> IdleJob]
    /\ lastRun = NoRun
    /\ others = <<>>
    /\ rag = IdleRag
    /\ saving = IdleSaving

\* Invocations of one owner do not overlap: one slot runs at a time.
Next ==
    \/ \E b \in BatchSizes, m \in MaxCommits :
           CallGenerateEmbeddingsForUser(1, b, m)
    \/ \E b \in BatchSizes : CallGenerateEmbeddingForNewCommits(1, b)
    \/ \E ok \in BOOLEAN : InitialStats(1, ok)
    \/ \E ok \in BOOLEAN : FetchBatch(1, ok)
    \/ \E ok \in BOOLEAN : EmbedBatch(1, ok)
    \/ \E ok \in BOOLEAN : SaveOne(1, ok)
    \/ \E ok \in BOOLEAN : FinalStats(1, ok)
    \/ \E ok \in BOOLEAN : OuterExcept(1, ok)
    \/ Return(1)

Spec == Init /\ [][Next]_vars

\* Searches and context requests of the owner over a corpus that holds
\* vectors: every row's vector is missing or the embedding of its message.
RagRow(h, t, e) ==
    [commit_hash |-> h, commit_message |-> t, writes |-> IF e THEN 1 ELSE 0,
     embedding |-> IF e THEN _normalize_embedding(ProviderEmbedding(t))
                   ELSE NULL]

RagTexts == { <<"a">>, <<"b">> }

RagStores ==
    UNION {{[i \in 1..n |-> RagRow(i, m[i], e[i])] :
               m \in [1..n -> RagTexts], e \in [1..n -> BOOLEAN]}
           : n \in 0..MaxRecords}

Prompts == Texts \cup { <<"c">> }
QueryVectors ==
    {_normalize_embedding(ProviderEmbedding(t)) : t \in Prompts \ { <<" ">> }}
Limits == 0..MaxRecords
\* min_similarity 0.5 (the default), 0.6 and 0.9
Thresholds == {One \div 2, (One * 6) \div 10, (One * 9) \div 10}

RagInit ==
    /\ store \in RagStores
    /\ job = [j \in Slots |-> IdleJob]
    /\ lastRun = NoRun
    /\ others = <<RagRow(1, <<"a">>, TRUE)>>
    /\ rag = IdleRag
    /\ saving = IdleSaving

RagNext ==
    \/ \E q \in QueryVectors, limit \in Limits, s \in Thresholds :
           CallSearchSimilarCommits(q, limit, s)
    \/ \E p \in Prompts, r \in BOOLEAN, m \in Limits :
           CallBuildContext(p, r, m)
    \/ \E p \in Prompts : CallPlanNode(p)
    \/ \E ok \in BOOLEAN : QueryEmbedding(ok)
    \/ \E ok \in BOOLEAN : Rpc(ok)
    \/ \E ok \in BOOLEAN : Fallback(ok)
    \/ \E w \in 0..MaxRecords, ok \in BOOLEAN : RecentCommits(w, ok)
    \/ \E u \in Profiles, ok \in BOOLEAN : UserContext(u, ok)
    \/ PlanNodeReturn

RagSpec == RagInit /\ [][RagNext]_vars

\* Calls of save_github_commits and get_embedding_for_commit, one after the
\* other, for two owners whose repositories may hold the same commits.  At
\* the start an owner holds no row or one row, with or without a vector; the
\* calls add the others.
Shas == 1..MaxRecords

DataRows == {RagRow(h, <<"a">>, e) : h \in Shas, e \in BOOLEAN}

DataStores == {<<>>} \cup {<<r>> : r \in DataRows}

DataInit ==
    /\ store \in DataStores
    /\ others \in DataStores
    /\ job = [j \in Slots |-> IdleJob]
    /\ lastRun = NoRun
    /\ rag = IdleRag
    /\ saving = IdleSaving

DataNext ==
    \/ \E u \in {Owner, OtherOwner} : CallSaveGithubCommits(u)
    \/ \E h \in Shas, ok \in BOOLEAN : CheckExisting(h, ok)
    \/ \E ok \in BOOLEAN : InsertCommit(ok)
    \/ SaveReturn
    \/ \E h \in Shas, k \in 1..2, ok \in BOOLEAN :
           GetEmbeddingForCommit(h, k, ok)
    \/ NextCall

DataSpec == DataInit /\ [][DataNext]_vars

\* One call of save_commit_embeddings_batch with any list of items: a hash
\* may be missing (0 stands for None), may name no row of the owner, an
\* embedding may be empty, and any write may fail.
ItemHashes == 0..MaxRecords
ItemEmbeddings ==
    {<<>>} \cup {_normalize_embedding(ProviderEmbedding(t)) : t \in RagTexts}
Items == [commit_hash : ItemHashes, embedding : ItemEmbeddings]
ItemLists == UNION {[1..n -> Items] : n \in 0..MaxBatch}

BatchStores ==
    {[i \in 1..n |-> RagRow(i, <<"a">>, e)] : n \in 0..MaxRecords, e \in BOOLEAN}

BatchInit ==
    /\ store \in BatchStores
    /\ job = [j \in Slots |-> IdleJob]
    /\ lastRun = NoRun
    /\ others = <<>>
    /\ rag = IdleRag
    /\ saving = IdleSaving

BatchNext ==
    \/ /\ job[1].pc = "idle"
       /\ \E items \in ItemLists : CallSaveCommitEmbeddingsBatch(1, items)
    \/ \E ok \in BOOLEAN : SaveOne(1, ok)

BatchSpec == BatchInit /\ [][BatchNext]_vars

\* Status queries for owners of any size: a few rows, or ManyCommits rows
\* of which a few have, or a few lack, a vector.  The owner's table is
\* given by the counts its queries return; store holds no row.
FewCommits == 0..(5 * MaxRecords)
TableCounts ==
    {c \in FewCommits \X FewCommits : c[2] <= c[1]}
    \cup {<<ManyCommits, k>> : k \in 0..MaxRecords}
    \cup {<<ManyCommits, ManyCommits - k>> : k \in 0..MaxRecords}

StatusNext ==
    \/ CallGetEmbeddingStatus(1)
    \/ \E c \in TableCounts, ok \in BOOLEAN : StatusFromStats(1, c[1], c[2], ok)
    \/ Return(1)

StatusInit ==
    /\ store = <<>>
    /\ job = [j \in Slots |-> IdleJob]
    /\ lastRun = NoRun
    /\ others = <<>>
    /\ rag = IdleRag
    /\ saving = IdleSaving

StatusSpec == StatusInit /\ [][StatusNext]_vars

\* Calls of generate_embeddings_batch with any list of texts, blank ones
\* included, and a provider that may fail.
TextLists == UNION {[1..n -> Prompts] : n \in 0..MaxRecords}

EmbedNext ==
    \E texts \in TextLists, ok \in BOOLEAN :
        CallGenerateEmbeddingsBatch(1, texts, ok)

EmbedSpec == StatusInit /\ [][EmbedNext]_vars

\* Lines 340..354 of regenerate_embeddings: the owner's commits are read
\* (limit=1000, no handler around the read); without commits the call
\* returns, otherwise generate_embeddings_for_user(user_id) is called with
\* its default batch size and no cap.
RegenerateRead(j, ok) ==
    /\ job[j].pc = "activity"
    /\ FaultAllowed(job[j], ok)
    /\ LET l == Fault(job[j], ok, "activity")
           commits == get_user_github_activity(Owner, 1000, Len(store))
       IN  job' = [job EXCEPT ![j] =
                     IF ~ok THEN [l EXCEPT !.pc = "raised"]
                     ELSE IF Len(commits) = 0
                     THEN [l EXCEPT
                             !.pc = "done",
                             !.regenerate = FALSE,
                             !.result = [success |-> FALSE,
                                         message |-> <<"No commits found">>]]
                     ELSE [l EXCEPT
                             !.pc = "stats", !.kind = "user",
                             !.batch_size = BatchSizeOrDefault(None),
                             !.max_commits = None]]
    /\ UNCHANGED <<store, lastRun, others, rag, saving>>

\* Calls of regenerate_embeddings for an owner whose rows hold a vector or
\* none.
RegenNext ==
    \/ \E force \in BOOLEAN : CallRegenerateEmbeddings(1, force)
    \/ \E ok \in BOOLEAN : RegenerateRead(1, ok)
    \/ \E ok \in BOOLEAN : InitialStats(1, ok)
    \/ \E ok \in BOOLEAN : FetchBatch(1, ok)
    \/ \E ok \in BOOLEAN : EmbedBatch(1, ok)
    \/ \E ok \in BOOLEAN : SaveOne(1, ok)
    \/ \E ok \in BOOLEAN : FinalStats(1, ok)

RegenSpec == RagInit /\ [][RegenNext]_vars

\* Contexts to format: up to MaxRecords + 1 ranked hits, up to MaxRecords
\* recent hits, and a profile whose lists are empty or longer than their cap.
FormatRanked ==
    {[i \in 1..n |-> Hit(RagRow(i, <<"a">>, TRUE), s)] :
        n \in 0..(MaxRecords + 1), s \in Thresholds}
FormatRecent ==
    {[i \in 1..n |-> RecentHit(RagRow(MaxRecords + 1 + i, <<"b">>, FALSE))] :
        n \in 0..MaxRecords}
FormatProfiles ==
    {NoProfile}
    \cup [found : {TRUE},
          projects : {<<>>, <<"p1", "p2", "p3", "p4">>},
          tech_stack : {<<>>, <<"t1", "t2", "t3", "t4", "t5", "t6">>},
          focus_areas : {<<>>, <<"f1", "f2", "f3">>}]

FormatNext ==
    \E r \in FormatRanked, c \in FormatRecent, u \in FormatProfiles :
        FormatContext(r, c, u)

FormatSpec == StatusInit /\ [][FormatNext]_vars

\* One invocation of generate_embeddings_for_user on any backlog, with any
\* batch size and cap and any pattern of failing calls, where every call the
\* job makes returns or raises: the job is never left waiting.
TermNext ==
    \/ \E b \in BatchSizes, m \in MaxCommits :
           CallGenerateEmbeddingsForUser(1, b, m)
    \/ \E ok \in BOOLEAN : InitialStats(1, ok)
    \/ \E ok \in BOOLEAN : FetchBatch(1, ok)
    \/ \E ok \in BOOLEAN : EmbedBatch(1, ok)
    \/ \E ok \in BOOLEAN : SaveOne(1, ok)
    \/ \E ok \in BOOLEAN : FinalStats(1, ok)
    \/ \E ok \in BOOLEAN : OuterExcept(1, ok)

TermSpec == Init /\ [][TermNext]_vars /\ WF_vars(TermNext)

\* A statistics read while a fetch of the same owner stores new commits
\* (save_github_commits) and embeds them (generate_embedding_for_new_commits,
\* main.py 1038..1051): the three calls interleave in every order.
StatsInit ==
    /\ store \in DataStores
    /\ job = [j \in Slots |-> IdleJob]
    /\ lastRun = NoRun
    /\ others = <<>>
    /\ rag = IdleRag
    /\ saving = IdleSaving

StatsNext ==
    \/ CallGetEmbeddingStats(1)
    \/ \E ok \in BOOLEAN : CountCommits(1, ok)
    \/ \E ok \in BOOLEAN : CountWithEmbeddings(1, ok)
    \/ CallSaveGithubCommits(Owner)
    \/ \E h \in Shas : CheckExisting(h, TRUE)
    \/ InsertCommit(TRUE)
    \/ SaveReturn
    \/ CallGenerateEmbeddingForNewCommits(2, None)
    \/ FetchBatch(2, TRUE)
    \/ EmbedBatch(2, TRUE)
    \/ SaveOne(2, TRUE)

StatsSpec == StatsInit /\ [][StatsNext]_vars

\* One invocation of generate_embedding_for_new_commits on any backlog, with
\* any batch size and any pattern of failing calls.
NewNext ==
    \/ \E b \in BatchSizes : CallGenerateEmbeddingForNewCommits(1, b)
    \/ \E ok \in BOOLEAN : FetchBatch(1, ok)
    \/ \E ok \in BOOLEAN : EmbedBatch(1, ok)
    \/ \E ok \in BOOLEAN : SaveOne(1, ok)

NewSpec == Init /\ [][NewNext]_vars

\* Re-invocation with a provider and a store that never fail: the job is
\* called again whenever it has returned, and every call it makes returns.
LiveNext ==
    \/ \E b \in BatchSizes : CallGenerateEmbeddingsForUser(1, b, None)
    \/ InitialStats(1, TRUE)
    \/ FetchBatch(1, TRUE)
    \/ EmbedBatch(1, TRUE)
    \/ SaveOne(1, TRUE)
    \/ FinalStats(1, TRUE)
    \/ Return(1)

LiveSpec == Init /\ [][LiveNext]_vars /\ WF_vars(LiveNext)

\* Two invocations for the same owner running at once, with a provider and a
\* store that never fail and no row added: their store and provider calls
\* interleave in every order.
ConcNext ==
    \E j \in Slots :
        \/ \E b \in BatchSizes : CallGenerateEmbeddingsForUser(j, b, None)
        \/ InitialStats(j, TRUE)
        \/ FetchBatch(j, TRUE)
        \/ EmbedBatch(j, TRUE)
        \/ SaveOne(j, TRUE)
        \/ FinalStats(j, TRUE)

ConcSpec == Init /\ [][ConcNext]_vars

\* ------------------------------------------------------------------ claims
\* The invocation in slot 1 has returned from generate_embeddings_for_user.
UserDone == job[1].pc = "done" /\ job[1].kind = "user"

\* The backlog the invocation started with, and the rows it filled.
StartBacklog == Missing(job[1].start_store)
Filled == StartBacklog \ Missing(store)

BacklogNonBlank ==
    \A i \in Rows(job[1].start_store) :
        ~HasEmbedding(job[1].start_store[i])
            => NonBlank(job[1].start_store[i].commit_message)

RECURSIVE SumSizes(_)
SumSizes(log) == IF log = <<>> THEN 0
                 ELSE Cardinality(Head(log)) + SumSizes(Tail(log))

CeilDiv(a, b) == (a + b - 1) \div b

\* C1: every vector stored on a row is the embedding the provider returns
\* for that row's own commit_message, blank messages in the batch included.
C1_VectorIsOwnEmbedding ==
    \A i \in Rows(store) :
        HasEmbedding(store[i])
            => store[i].embedding =
                   _normalize_embedding(ProviderEmbedding(store[i].commit_message))

\* C2: with a backlog of three batches and the provider failing only on the
\* second call, the job runs three batches, counts the second batch as
\* failed, and at return exactly the rows of that second batch lack a vector.
C2_OnlyFailedBatchLacksVector ==
    (/\ UserDone
     /\ job[1].max_commits = None
     /\ BacklogNonBlank
     /\ Cardinality(StartBacklog) = 3 * job[1].batch_size
     /\ job[1].faults = {"embed"}
     /\ job[1].failed_calls = {2})
    => /\ job[1].result.batches_processed = 3
       /\ job[1].result.failed = job[1].batch_size
       /\ Missing(store) = job[1].batch_log[2]

\* C3: with a backlog of N non-blank rows, batch size B, no cap and no
\* failure, the summary is batches_processed = ceil(N/B), total_processed =
\* embeddings_generated = N, failed = 0, and the final stats show no row
\* without a vector (100% when the owner has rows).
C3_FullBacklogSummary ==
    (/\ UserDone
     /\ job[1].max_commits = None
     /\ BacklogNonBlank
     /\ job[1].nfaults = 0)
    => LET N == Cardinality(StartBacklog)
           r == job[1].result
       IN  /\ r.batches_processed = CeilDiv(N, job[1].batch_size)
           /\ r.total_processed = N
           /\ r.embeddings_generated = N
           /\ r.failed = 0
           /\ r.stats.commits_without_embeddings = 0
           /\ Missing(store) = {}
           /\ (Len(store) > 0 => r.stats.percentage_complete = 10000)

C3_Witness ==
    /\ UserDone
    /\ job[1].max_commits = None
    /\ BacklogNonBlank
    /\ job[1].nfaults = 0
    /\ Cardinality(StartBacklog) = 3
    /\ job[1].batch_size = 2
    /\ job[1].result.batches_processed = 2

\* C4 as stated: the second of two generate_embeddings_for_user runs in a
\* row reports embeddings_generated = 0.
C4_SecondRunGeneratesNothing ==
    (UserDone /\ lastRun = "user") => job[1].result.embeddings_generated = 0

\* C4 amended: the second of two runs in a row generates vectors only for
\* rows the first run left without one: its embeddings_generated is the
\* number of those rows that gained a vector, so 0 when the first left none.
C4_SecondRunOnlyFillsLeftovers ==
    (UserDone /\ lastRun = "user")
    => job[1].result.embeddings_generated = Cardinality(Filled)

C4_Witness ==
    /\ UserDone
    /\ lastRun = "user"
    /\ Len(store) > 0
    /\ StartBacklog = {}
    /\ job[1].result.embeddings_generated = 0

\* C5: when the initial stats report commits_without_embeddings = 0 the
\* invocation returns all-zero counters at once: one stats read, no fetch,
\* no provider call, no write, store unchanged.
C5_NoBacklogIsNoOp ==
    (UserDone /\ job[1].initial_stats.commits_without_embeddings = 0)
    => /\ job[1].result.total_processed = 0
       /\ job[1].result.embeddings_generated = 0
       /\ job[1].result.failed = 0
       /\ job[1].result.batches_processed = 0
       /\ job[1].calls = [stats |-> 1, fetch |-> 0, provider |-> 0, save |-> 0]
       /\ store = job[1].start_store

C5_Witness ==
    /\ UserDone
    /\ job[1].nfaults = 0
    /\ job[1].initial_stats.commits_without_embeddings = 0
    /\ job[1].initial_stats.total_commits > 0

\* C6: generate_embeddings_for_user never raises; whatever fails, it returns
\* a summary whose total_processed, embeddings_generated and
\* batches_processed are what the invocation did up to then.
C6_NeverRaises ==
    /\ job[1].pc # "raised"
    /\ UserDone
       => /\ {"total_processed", "embeddings_generated", "failed",
              "batches_processed"} \subseteq DOMAIN job[1].result
          /\ job[1].result.total_processed = SumSizes(job[1].batch_log)
          /\ job[1].result.batches_processed = Len(job[1].batch_log)
          /\ job[1].result.embeddings_generated = Cardinality(Filled)
          /\ job[1].result.failed = job[1].total_failed

C6_Witness ==
    /\ UserDone
    /\ "error" \in DOMAIN job[1].result
    /\ job[1].nfaults > 0

\* C7: every provider or store failure during the invocation shows in the
\* summary, in the failed counter or in an error field.
C7_FailureIsReported ==
    (UserDone /\ job[1].faults # {})
    => \/ job[1].result.failed > 0
       \/ "error" \in DOMAIN job[1].result

\* C8: under repeated re-invocation every row with an embeddable message
\* eventually has a vector, whatever other rows keep failing.
C8_EmbeddableRowsGetVectors ==
    <>(\A i \in Rows(store) :
           NonBlank(store[i].commit_message) => HasEmbedding(store[i]))

\* C9: with max_commits supplied (any value >= 0) the invocation processes
\* at most max_commits rows.
C9_CapIsRespected ==
    (UserDone /\ job[1].max_commits.t = "int" /\ job[1].max_commits.v >= 0)
    => job[1].result.total_processed <= job[1].max_commits.v

\* C10: over any sequence of non-overlapping invocations a row's vector is
\* written at most once: a fetched batch holds only rows without a vector,
\* and no row is written a second time.
C10_WrittenAtMostOnce ==
    /\ \A i \in Rows(store) : store[i].writes <= 1
    /\ job[1].pc = "embed"
       => \A k \in 1..Len(job[1].commits) :
              job[1].commits[k].commit_hash \in Missing(store)

C10_Witness ==
    /\ job[1].pc = "done"
    /\ lastRun # "none"
    /\ job[1].result.embeddings_generated > 0
    /\ \E i \in Rows(store) :
           /\ HasEmbedding(job[1].start_store[i])
           /\ store[i].writes = 1

\* C11: two interleaved generate_embeddings_for_user invocations of one
\* owner are safe: a written vector is never removed, every row with a vector
\* holds the embedding of its own text, and (provider and store never failing,
\* no row added) once both have returned no row of the initial backlog lacks
\* a vector.
C11_ConcurrentRunsAreSafe ==
    /\ \A i \in Rows(store) :
           /\ store[i].writes > 0 => HasEmbedding(store[i])
           /\ HasEmbedding(store[i])
                  => store[i].embedding =
                         _normalize_embedding(
                             ProviderEmbedding(store[i].commit_message))
    /\ (\A j \in Slots : job[j].pc = "done" /\ job[j].kind = "user")
           => Missing(store) = {}

\* build_context_for_generation has returned its context (to its caller or
\* to get_context_for_tweet_generation).
ContextReturned ==
    /\ rag.kind \in {"build", "plan"}
    /\ rag.pc \in {"built", "done"}
    /\ rag.state.error # Set("User prompt is empty")

\* C12: in every context build_context_for_generation returns,
\* relevant_commits and recent_commits share no commit_hash and together
\* hold at most max_commits entries.
C12_RankedAndRecentDisjoint ==
    ContextReturned
    => /\ HashSet(rag.context.relevant_commits)
              \cap HashSet(rag.context.recent_commits) = {}
       /\ Len(rag.context.relevant_commits) + Len(rag.context.recent_commits)
              <= rag.max_commits

\* A returned context with ranked and recent hits, where a ranked hit was
\* among the rows of the window and had to be left out of the recent ones.
C12_Witness ==
    /\ ContextReturned
    /\ rag.context.relevant_commits # <<>>
    /\ rag.context.recent_commits # <<>>
    /\ \E i \in 1..rag.window :
           store[i].commit_hash \in HashSet(rag.context.relevant_commits)

\* The owner's rows of the last seven days that are not ranked hits, newest
\* first.
WindowNotRanked ==
    SelectSeq(Take(store, rag.window),
              LAMBDA row : row.commit_hash \notin HashSet(rag.results))

\* C13: when the search returned fewer than max_commits hits and
\* include_recent is true, recent_commits are the window's rows that are not
\* ranked hits, newest first, as many as fit under max_commits or all of them.
C13_TopUpUntilFullOrExhausted ==
    (/\ ContextReturned
     /\ rag.recent_called
     /\ ~rag.recent_raised
     /\ ~rag.context_raised)
    => Hashes(rag.context.recent_commits)
           = Hashes(Take(WindowNotRanked,
                         rag.max_commits - Len(rag.context.relevant_commits)))

\* C14: when get_user_context raises, the returned context holds the ranked
\* and recent hits retrieved before, and a formatted_context rendered from
\* them.
C14_PartialContextOnProfileFailure ==
    (ContextReturned /\ rag.context_raised)
    => /\ rag.context.relevant_commits = rag.assembled.relevant_commits
       /\ rag.context.recent_commits = rag.assembled.recent_commits
       /\ rag.context.formatted_context
              = _format_context_for_prompt(rag.assembled)

\* C15: whatever fails (provider, search, recent read, profile store) the
\* builder does not raise and returns a context whose formatted_context is
\* the rendering of what it returns; plan_node then sets is_valid and
\* rag_context to that string.
C15_RetrievalFaultNeverBlocks ==
    /\ ~rag.raised
    /\ ContextReturned
       => rag.context.formatted_context
              = _format_context_for_prompt(rag.context)
    /\ (rag.kind = "plan" /\ rag.pc = "done" /\ NonBlank(rag.user_prompt))
       => /\ rag.state.is_valid.set /\ rag.state.is_valid.v = TRUE
          /\ rag.state.rag_context.set
          /\ rag.state.rag_context.v = rag.context.formatted_context

\* plan_node done after the profile store raised, the search having found
\* hits.
C15_Witness ==
    /\ rag.kind = "plan" /\ rag.pc = "done"
    /\ rag.context_raised
    /\ rag.results # <<>>
    /\ rag.state.is_valid.set /\ rag.state.is_valid.v = TRUE

\* search_similar_commits, called with a query vector, has returned.
SearchDone == rag.kind = "search" /\ rag.pc = "done"

\* The rows the fallback loads, the similarity of a row to the query, and
\* the loaded rows that reach the threshold.
Loaded == Take(SelectSeq(store, HasEmbedding), MaxLoad)
Similarity(row) == cosine_similarity(rag.query_embedding, row.embedding)
Qualifying ==
    {i \in 1..Len(Loaded) : Similarity(Loaded[i]) >= rag.min_similarity}

RpcCalled == rag.path = "primary" \/ rag.rpc_raised

\* C17: the rpc is passed match_threshold = 1 - min_similarity,
\* match_count = limit and the owner's id as query_user_id.
C17_ThresholdInversion ==
    RpcCalled
    => /\ rag.rpc_args.match_threshold = One - rag.min_similarity
       /\ rag.rpc_args.match_count = rag.limit
       /\ rag.rpc_args.query_user_id = Owner

\* The rpc called for min_similarity 0.9 with distance threshold 0.1.
C17_Witness ==
    /\ RpcCalled
    /\ rag.min_similarity = (One * 9) \div 10
    /\ rag.rpc_args.match_threshold = One \div 10
    /\ rag.limit > 0

\* What the two paths return for the request's arguments.
PrimaryHashes ==
    Hashes(rpc_search_similar_commits(
               RpcArgs(Owner, rag.query_embedding, rag.limit,
                       rag.min_similarity)))
FallbackHashes ==
    Hashes(FallbackRank(get_commits_with_embeddings(Owner, MaxLoad, TRUE),
                        rag.query_embedding, rag.limit, rag.min_similarity))

SaveDone == saving.pc = "done"

\* The caller's rows now and at the call.
CallerRows == IF saving.user_id = Owner THEN store ELSE others
CallerStart ==
    IF saving.user_id = Owner THEN saving.start_store ELSE saving.start_others

\* C19: an operation invoked for the owner reads and writes only the owner's
\* rows.  save_github_commits without a failure stores every submitted
\* commit the owner did not have and counts it as new, whatever the other
\* owner holds, and leaves the other owner's rows alone;
\* get_embedding_for_commit returns the vector of the owner's row, or None
\* when the owner has no such row.
C19_OwnerIsolation ==
    /\ (SaveDone /\ saving.user_id = Owner /\ ~saving.faulted)
       => /\ others = saving.start_others
          /\ HashSet(store)
                 = HashSet(saving.start_store) \cup saving.submitted
          /\ saving.result.new_commits
                 = Cardinality(saving.submitted
                                   \ HashSet(saving.start_store))
    /\ (saving.pc = "looked" /\ ~saving.faulted)
       => IF saving.commit_hash \in HashSet(store)
          THEN \E i \in Rows(store) :
                   /\ store[i].commit_hash = saving.commit_hash
                   /\ store[i].embedding = saving.embedding
          ELSE saving.embedding = NULL

NoDuplicates(rows) ==
    \A i, j \in 1..Len(rows) :
        i # j => rows[i].commit_hash # rows[j].commit_hash

\* C20: after any sequence of save_github_commits calls no owner has two
\* rows with the same commit_hash; a call inserts one row per commit it
\* counts as new and nothing else, counts every other submitted commit
\* (the already stored ones among them) in skipped, and leaves every
\* existing row, vector included, as it was.
C20_NoDuplicateCommits ==
    /\ NoDuplicates(store)
    /\ NoDuplicates(others)
    /\ SaveDone
       => /\ \A i \in 1..Len(CallerStart) :
                 \E j \in 1..Len(CallerRows) : CallerRows[j] = CallerStart[i]
          /\ Len(CallerRows) = Len(CallerStart) + saving.result.new_commits
          /\ saving.result.new_commits + saving.result.skipped = saving.n
          /\ saving.result.skipped >= saving.resubmitted

\* A call that re-submitted a commit stored with a vector, together with a
\* new one.
C20_Witness ==
    /\ SaveDone
    /\ ~saving.faulted
    /\ saving.result.new_commits > 0
    /\ saving.result.skipped > 0
    /\ \E i \in 1..Len(CallerStart) :
           /\ CallerStart[i].commit_hash \in saving.submitted
           /\ HasEmbedding(CallerStart[i])

\* The invocation in slot 1 is a call of save_commit_embeddings_batch.
InSaveBatch == job[1].kind = "batch"

RowsOf(s, commit_hash) == {i \in Rows(s) : s[i].commit_hash = commit_hash}

\* C21: each item of save_commit_embeddings_batch is handled on its own.  An
\* item is counted in success exactly when it has a hash and a vector, its
\* row exists and its write did not fail; then its row holds its vector and
\* no other row changed.  Every other item is counted in failed, changes
\* nothing and raises nothing, and the loop goes on to the next item; at the
\* return success + failed is the number of items given.
C21_ItemsAreIndependent ==
    [][(InSaveBatch /\ job[1].pc = "save") =>
          LET l == job[1]
              l2 == job'[1]
              item == Head(l.commit_embeddings)
              valid == item.commit_hash # 0 /\ item.embedding # <<>>
              hit == RowsOf(store, item.commit_hash)
              written == l2.success = l.success + 1
          IN  /\ l2.pc \in {"save", "done"}
              /\ l2.success + l2.failed = l.success + l.failed + 1
              /\ l2.success \in {l.success, l.success + 1}
              /\ written <=> (valid /\ hit # {} /\ l2.nfaults = l.nfaults)
              /\ IF written
                 THEN /\ Len(store') = Len(store)
                      /\ \A i \in Rows(store) :
                            IF i \in hit
                            THEN store'[i].embedding = item.embedding
                            ELSE store'[i] = store[i]
                 ELSE store' = store
              /\ l2.commit_embeddings = Tail(l.commit_embeddings)
              /\ (l2.pc = "done") <=> (Len(l.commit_embeddings) = 1)
              /\ l2.pc = "done" =>
                    /\ l2.result = [success |-> l2.success, failed |-> l2.failed]
                    /\ l2.success + l2.failed = Len(l.given)]_vars

\* A call has returned whose first item named no row and whose second item
\* was written all the same.
C21_Witness ==
    /\ InSaveBatch /\ job[1].pc = "done"
    /\ Len(job[1].given) = 2
    /\ job[1].given[1].embedding # <<>>
    /\ job[1].given[1].commit_hash # 0
    /\ RowsOf(store, job[1].given[1].commit_hash) = {}
    /\ job[1].result = [success |-> 1, failed |-> 1]
    /\ \E i \in RowsOf(store, job[1].given[2].commit_hash) :
          /\ store[i].embedding = job[1].given[2].embedding
          /\ store[i].embedding # job[1].start_store[i].embedding

\* The statistics of a store as the claim states them.
WithVector(s) == Cardinality({i \in Rows(s) : HasEmbedding(s[i])})

\* C22: with no write between its queries, get_embedding_stats returns
\* total_commits = the number of the owner's rows, commits_with_embeddings =
\* the number of them with a vector, commits_without_embeddings = their
\* difference, ready_for_search = (commits_with_embeddings > 0), and
\* percentage_complete = 0 for an owner without rows.  Stated of the
\* statistics a job reads at its start, when the store is as it was at the
\* call.
C22_StatsMatchStore ==
    (job[1].kind = "user" /\ job[1].initial_stats # NoStats)
    => LET stats == job[1].initial_stats
           s == job[1].start_store
       IN  /\ stats.total_commits = Len(s)
           /\ stats.commits_with_embeddings = WithVector(s)
           /\ stats.commits_without_embeddings = Len(s) - WithVector(s)
           /\ stats.ready_for_search = (WithVector(s) > 0)
           /\ Len(s) = 0 => stats.percentage_complete = 0

StatusDone == job[1].kind = "status" /\ job[1].pc = "done"

\* C23: the status is derived from the statistics alone:
\* estimated_batches_remaining is the least number of batches of
\* default_batch_size that cover commits_without_embeddings; status_message
\* is that of the first bucket percentage_complete falls in (= 100, >= 75,
\* >= 50, > 0, else "Not started"); the "All commits have embeddings"
\* message is given only when no row lacks a vector; an owner without rows
\* gets 0 percent and "Not started: 0 commits need embeddings".
C23_StatusFromStats ==
    StatusDone
    => LET stats == job[1].initial_stats
           status == job[1].result
           p == stats.percentage_complete
           n == stats.commits_without_embeddings
           e == status.estimated_batches_remaining
       IN  /\ e * default_batch_size >= n
           /\ (e - 1) * default_batch_size < n
           /\ status.percentage_complete = p
           /\ status.commits_needing_embeddings = n
           /\ p = 10000 => status.status_message = AllDone
           /\ (p >= 7500 /\ p < 10000) => status.status_message = AlmostDone(n)
           /\ (p >= 5000 /\ p < 7500) => status.status_message = Halfway(n)
           /\ (p > 0 /\ p < 5000) => status.status_message = InProgress(n)
           /\ p <= 0 => status.status_message = NotStarted(n)
           /\ status.status_message = AllDone => n = 0
           /\ stats.total_commits = 0
                 => p = 0 /\ status.status_message = NotStarted(0)

\* C24: generate_embeddings_batch calls the provider once and returns one
\* vector per non-blank text, the i-th vector being the embedding of the
\* i-th non-blank text; for an empty list, or a list of blank texts only, it
\* raises and the provider is not called.
C24_OneVectorPerNonBlankText ==
    job[1].kind = "embed"
    => LET texts == job[1].given
           valid == SelectSeq(texts, NonBlank)
           embeddings == job[1].result.value
       IN  /\ job[1].calls.provider <= 1
           /\ (job[1].calls.provider = 0) <=> (valid = <<>>)
           /\ job[1].calls.provider = 0 => job[1].pc = "raised"
           /\ job[1].pc = "done"
                 => /\ Len(embeddings) = Len(valid)
                    /\ \A i \in 1..Len(valid) :
                          embeddings[i]
                              = _normalize_embedding(ProviderEmbedding(valid[i]))

\* A call returned the vectors of the two texts that follow a blank one.
C24_Witness ==
    /\ job[1].kind = "embed" /\ job[1].pc = "done"
    /\ Len(job[1].given) = 3
    /\ ~NonBlank(job[1].given[1])
    /\ Len(job[1].result.value) = 2
    /\ job[1].result.value[1] # job[1].result.value[2]
    /\ job[1].result.value[2]
          = _normalize_embedding(ProviderEmbedding(job[1].given[3]))

RegenDone == job[1].kind = "regen" /\ job[1].pc = "done"

\* C25: regenerate_embeddings with force = True, when nothing fails,
\* regenerates and rewrites the vector of every row of the owner that had
\* one; with force = False it returns success = False and makes no provider
\* call and no store write.
C25_ForceRewritesVectors ==
    RegenDone
    => IF job[1].regenerate
       THEN job[1].nfaults = 0
            => /\ job[1].result.success
               /\ \A i \in Rows(job[1].start_store) :
                     HasEmbedding(job[1].start_store[i])
                     => /\ store[i].writes > job[1].start_store[i].writes
                        /\ job[1].calls.provider > 0
       ELSE /\ ~job[1].result.success
            /\ job[1].calls.provider = 0
            /\ job[1].calls.save = 0
            /\ store = job[1].start_store

Formatted == rag.kind = "format" /\ rag.pc = "done"

OneIf(b) == IF b THEN 1 ELSE 0

\* C26: formatted_context is determined by relevant_commits, recent_commits
\* and user_context: first the ranked hits (a header, then at most 3 of
\* them), then the recent hits (a header, then at most 2), then the profile
\* lines in the order projects (at most 3), tech stack (at most 5), focus
\* areas (at most 2); a section without data has no line, and a context
\* without any data gives the empty string and no error.
C26_FormatIsFixed ==
    Formatted
    => LET text == rag.context.formatted_context
           ranked == rag.context.relevant_commits
           recent == rag.context.recent_commits
           u == rag.context.user_context
           R == Min(3, Len(ranked))
           C == Min(2, Len(recent))
           P == u.found /\ u.projects # <<>>
           T == u.found /\ u.tech_stack # <<>>
           F == u.found /\ u.focus_areas # <<>>
           rankedLen == IF R > 0 THEN 2 + 4 * R ELSE 0
           recentLen == IF C > 0 THEN C + 2 ELSE 0
           profileAt == rankedLen + recentLen
       IN  /\ Len(text) = profileAt + OneIf(P) + OneIf(T) + OneIf(F)
                              + OneIf(P \/ T \/ F)
           /\ R > 0 => /\ text[1] = <<"YOUR ACTUAL WORK">>
                       /\ \A k \in 1..R :
                             /\ text[4 * k - 1]
                                   = <<"Commit", k, Pct(ranked[k].similarity)>>
                             /\ text[4 * k + 1]
                                   = <<"What you did", ranked[k].commit_message>>
           /\ C > 0 => /\ text[rankedLen + 1] = <<"RECENT ACTIVITY">>
                       /\ \A k \in 1..C :
                             text[rankedLen + 1 + k]
                                 = <<k, recent[k].commit_message>>
           /\ P => text[profileAt + 1]
                       = <<"ACTIVE PROJECTS", Take(u.projects, 3)>>
           /\ T => text[profileAt + OneIf(P) + 1]
                       = <<"TECH STACK", Take(u.tech_stack, 5)>>
           /\ F => text[profileAt + OneIf(P) + OneIf(T) + 1]
                       = <<"FOCUS AREAS", Take(u.focus_areas, 2)>>
           /\ (R = 0 /\ C = 0 /\ ~(P \/ T \/ F))
                 => text = <<>> /\ ~rag.context.has_error

\* A context with more ranked hits, recent hits, projects, tags and focus
\* areas than are rendered.
C26_Witness ==
    /\ Formatted
    /\ Len(rag.context.relevant_commits) > 3
    /\ Len(rag.context.recent_commits) > 2
    /\ Len(rag.context.user_context.projects) > 3
    /\ Len(rag.context.user_context.tech_stack) > 5
    /\ Len(rag.context.user_context.focus_areas) > 2
    /\ Len(rag.context.formatted_context) = 22

InUserJob == job[1].kind = "user"

RECURSIVE SumWrites(_)
SumWrites(rows) ==
    IF rows = <<>> THEN 0 ELSE Head(rows).writes + SumWrites(Tail(rows))

WritesDone == SumWrites(store) - SumWrites(job[1].start_store)

\* C28: after every batch and at the return of generate_embeddings_for_user,
\* total_processed = embeddings_generated + failed, embeddings_generated is
\* the number of vector writes that succeeded during the invocation, and
\* batches_processed is the number of non-empty batches fetched.
C28_CountersConsistent ==
    (InUserJob /\ job[1].pc \in {"fetch", "final", "done"})
    => /\ job[1].total_processed = job[1].total_generated + job[1].total_failed
       /\ job[1].total_generated = WritesDone
       /\ job[1].batches_processed = Len(job[1].batch_log)
       /\ job[1].pc = "done"
             => /\ job[1].result.total_processed = job[1].total_processed
                /\ job[1].result.embeddings_generated = job[1].total_generated
                /\ job[1].result.failed = job[1].total_failed
                /\ job[1].result.batches_processed = job[1].batches_processed

StatsDone == job[1].kind = "stats" /\ job[1].pc = "done"

\* C29: every result of get_embedding_stats has 0 <= commits_with_embeddings
\* <= total_commits, commits_without_embeddings >= 0 and 0 <=
\* percentage_complete <= 100, also when rows of the owner are inserted and
\* embedded by other calls between its two count queries.
C29_StatsWithinRange ==
    StatsDone
    => LET stats == job[1].result
       IN  /\ 0 <= stats.commits_with_embeddings
           /\ stats.commits_with_embeddings <= stats.total_commits
           /\ stats.commits_without_embeddings >= 0
           /\ 0 <= stats.percentage_complete
           /\ stats.percentage_complete <= 10000

\* The invocation in slot 1 has returned from
\* generate_embedding_for_new_commits.
NewDone == job[1].kind = "new" /\ job[1].pc = "done"

\* The rows of the backlog at the call that are not among its newest
\* batch_size rows.
BeyondBatch ==
    LET backlog == SelectSeq(job[1].start_store, LAMBDA row : ~HasEmbedding(row))
    IN  {backlog[k].commit_hash : k \in (job[1].batch_size + 1)..Len(backlog)}

\* C30: an invocation of generate_embedding_for_new_commits never raises,
\* fetches the backlog exactly once, calls the provider at most once, and
\* processes at most batch_size rows (the default when none is given); the
\* rows of the backlog beyond the newest batch_size are unchanged and
\* without a vector; a failed provider call is returned as failed = the
\* number of fetched rows, nothing generated and nothing written.
C30_NewCommitsSingleBatch ==
    /\ job[1].kind = "new" => job[1].pc \notin {"exc", "raised"}
    /\ NewDone
       => /\ job[1].calls.fetch = 1
          /\ job[1].calls.provider <= 1
          /\ job[1].result.total_processed = Len(job[1].commits)
          /\ job[1].result.total_processed <= job[1].batch_size
          /\ job[1].calls.save <= job[1].batch_size
          /\ \A i \in Rows(store) :
                store[i].commit_hash \in BeyondBatch
                => store[i] = job[1].start_store[i] /\ ~HasEmbedding(store[i])
          /\ job[1].failed_calls # {}
                => /\ job[1].result.failed = Len(job[1].commits)
                   /\ job[1].result.embeddings_generated = 0
                   /\ store = job[1].start_store

\* An invocation with batch size 2 on a backlog of three rows returned: two
\* rows were processed in one provider call and the third is untouched.
C30_Witness ==
    /\ NewDone
    /\ job[1].batch_size = 2
    /\ Cardinality(Missing(job[1].start_store)) = 3
    /\ job[1].result.total_processed = 2
    /\ job[1].result.embeddings_generated = 2
    /\ job[1].calls.provider = 1
    /\ BeyondBatch # {}
    /\ BeyondBatch \subseteq Missing(store)

====
